---------------------------- MODULE Spec2Model ----------------------------
(***************************************************************************)
(* sql2excel: partition generation, placeholder substitution and the       *)
(* report-population loop of src/main.go, as a state machine.              *)
(*                                                                         *)
(* Go strings are sequences of one-character strings, times are records    *)
(* [y, m, d, s] (calendar date and second of the day, UTC).                *)
(***************************************************************************)
EXTENDS Integers, Sequences, FiniteSets, TLC

(***************************************************************************)
(* Bounds of the model.                                                    *)
(***************************************************************************)
\* number of further years enumerated after the first one
YearSpan == 1
\* daily specs are enumerated with end at most this many months after begin
MaxDailyMonths == 1
\* data sources of a configuration
MaxSources == 2
\* result rows of one query
MaxRows == 3
\* I/O failures the environment injects into one run
MaxFaults == 1
\* pieces a template string is concatenated from
MaxPieces == 3

(***************************************************************************)
(* Strings.                                                                *)
(***************************************************************************)
DigitChars == <<"0", "1", "2", "3", "4", "5", "6", "7", "8", "9">>

IsDigit(c) == \E i \in 1..10 : DigitChars[i] = c

DigitVal(c) == (CHOOSE i \in 1..10 : DigitChars[i] = c) - 1

\* fmt.Sprint of a non-negative int: decimal, no padding
RECURSIVE Sprint(_)
Sprint(n) ==
    IF n < 10 THEN <<DigitChars[n + 1]>>
    ELSE Sprint(n \div 10) \o <<DigitChars[(n % 10) + 1]>>

\* decimal with at least w digits, zero padded (time's appendInt)
RECURSIVE AppendInt(_, _)
AppendInt(n, w) ==
    IF w <= 1 THEN Sprint(n)
    ELSE IF n < 10 THEN <<"0">> \o AppendInt(n, w - 1)
    ELSE AppendInt(n \div 10, w - 1) \o <<DigitChars[(n % 10) + 1]>>

HasPrefix(s, pre) ==
    /\ Len(s) >= Len(pre)
    /\ SubSeq(s, 1, Len(pre)) = pre

Drop(s, n) == SubSeq(s, n + 1, Len(s))

\* strings.Contains
RECURSIVE Contains(_, _)
Contains(s, sub) ==
    IF Len(s) < Len(sub) THEN FALSE
    ELSE IF HasPrefix(s, sub) THEN TRUE
    ELSE Contains(Drop(s, 1), sub)

\* strings.ReplaceAll for a non-empty old: leftmost non-overlapping
\* occurrences of old are replaced by new, in one left-to-right pass
RECURSIVE ReplaceAll(_, _, _)
ReplaceAll(s, old, new) ==
    IF Len(s) < Len(old) THEN s
    ELSE IF HasPrefix(s, old) THEN new \o ReplaceAll(Drop(s, Len(old)), old, new)
    ELSE <<s[1]>> \o ReplaceAll(Drop(s, 1), old, new)

TokNum == <<"{", "n", "u", "m", "}">>
TokBeg == <<"{", "p", "a", "r", "t", ".", "b", "e", "g", "}">>
TokEnd == <<"{", "p", "a", "r", "t", ".", "e", "n", "d", "}">>
TokRowsLast == <<"{", "r", "o", "w", "s", ".", "l", "a", "s", "t", "}">>

(***************************************************************************)
(* Calendar arithmetic of package time, as CreatePartitions and Process    *)
(* use it.                                                                 *)
(***************************************************************************)
IsLeap(y) == (y % 4 = 0) /\ ((y % 100 # 0) \/ (y % 400 = 0))

DaysIn(y, m) ==
    IF m = 2 THEN (IF IsLeap(y) THEN 29 ELSE 28)
    ELSE IF m \in {4, 6, 9, 11} THEN 30
    ELSE 31

\* time.Date's normalisation of an out-of-range month, then of the day
RECURSIVE NormDay(_, _, _, _)
NormDay(y, m, d, s) ==
    IF d > DaysIn(y, m)
    THEN (IF m = 12 THEN NormDay(y + 1, 1, d - DaysIn(y, m), s)
          ELSE NormDay(y, m + 1, d - DaysIn(y, m), s))
    ELSE IF d < 1
    THEN (IF m = 1 THEN NormDay(y - 1, 12, d + DaysIn(y - 1, 12), s)
          ELSE NormDay(y, m - 1, d + DaysIn(y, m - 1), s))
    ELSE [y |-> y, m |-> m, d |-> d, s |-> s]

Date(y, m, d, s) ==
    LET m0 == m - 1
        yy == y + (m0 \div 12)
        mm == (m0 % 12) + 1
    IN  NormDay(yy, mm, d, s)

\* midnight of a calendar day
Day(y, m, d) == [y |-> y, m |-> m, d |-> d, s |-> 0]

\* t.AddDate(years, months, days)
AddDate(t, years, months, days) ==
    Date(t.y + years, t.m + months, t.d + days, t.s)

\* t.Before(u)
Before(t, u) ==
    \/ t.y < u.y
    \/ t.y = u.y /\ t.m < u.m
    \/ t.y = u.y /\ t.m = u.m /\ t.d < u.d
    \/ t.y = u.y /\ t.m = u.m /\ t.d = u.d /\ t.s < u.s

\* the three closures of the switch in CreatePartitions
adder(type, cur) ==
    IF type \in {"day", "daily"} THEN AddDate(cur, 0, 0, 1)
    ELSE IF type \in {"month", "monthly"} THEN AddDate(cur, 0, 1, 0)
    ELSE AddDate(cur, 1, 0, 0)

SupportedTypes == {"day", "daily", "month", "monthly", "year", "yearly"}

\* time.Parse("2006-01-02T15:04:05", str + "T00:00:00" or "T23:59:59"):
\* the date part must be dddd-dd-dd with a month in 1..12 and a day of
\* that month; s is the second of the day the appended clock stands for
AllDigits(s) == \A i \in 1..Len(s) : IsDigit(s[i])

RECURSIVE Atoi(_)
Atoi(s) ==
    IF Len(s) = 0 THEN 0
    ELSE 10 * Atoi(SubSeq(s, 1, Len(s) - 1)) + DigitVal(s[Len(s)])

ParseOk(str) ==
    /\ Len(str) = 10
    /\ str[5] = "-"
    /\ str[8] = "-"
    /\ AllDigits(SubSeq(str, 1, 4))
    /\ AllDigits(SubSeq(str, 6, 7))
    /\ AllDigits(SubSeq(str, 9, 10))
    /\ Atoi(SubSeq(str, 6, 7)) \in 1..12
    /\ Atoi(SubSeq(str, 9, 10)) \in
           1..DaysIn(Atoi(SubSeq(str, 1, 4)), Atoi(SubSeq(str, 6, 7)))

Parse(str, s) ==
    [y |-> Atoi(SubSeq(str, 1, 4)),
     m |-> Atoi(SubSeq(str, 6, 7)),
     d |-> Atoi(SubSeq(str, 9, 10)),
     s |-> s]

SecondsOfDayEnd == 86399

\* PartitionLoop with the final boundary clamped to end
RECURSIVE PartitionLoop_AppendEnd(_, _, _)
PartitionLoop_AppendEnd(type, cur, end) ==
    IF Before(cur, end)
    THEN <<cur>> \o PartitionLoop_AppendEnd(type, adder(type, cur), end)
    ELSE <<end>>

\* the loop of CreatePartitions: every cur before end, then the cur that
\* ended the loop
RECURSIVE PartitionLoop(_, _, _)
PartitionLoop(type, cur, end) ==
    IF Before(cur, end)
    THEN <<cur>> \o PartitionLoop(type, adder(type, cur), end)
    ELSE <<cur>>

ErrParse == "parsing time"
ErrUnsupported == "unsupported partition type"
NoErr == "nil"

\* CreatePartitions without the default case of the switch: an unknown
\* type falls through to the yearly adder
CreatePartitions_NoDefault(part) ==
    IF ~ParseOk(part.Begin) THEN [res |-> <<>>, err |-> ErrParse]
    ELSE IF ~ParseOk(part.End) THEN [res |-> <<>>, err |-> ErrParse]
    ELSE [res |-> PartitionLoop(part.Type,
                                Parse(part.Begin, 0),
                                Parse(part.End, SecondsOfDayEnd)),
          err |-> NoErr]

\* CreatePartitions with end parsed at 00:00:00 instead of 23:59:59
CreatePartitions_EndMidnight(part) ==
    IF ~ParseOk(part.Begin) THEN [res |-> <<>>, err |-> ErrParse]
    ELSE IF ~ParseOk(part.End) THEN [res |-> <<>>, err |-> ErrParse]
    ELSE IF part.Type \notin SupportedTypes
    THEN [res |-> <<>>, err |-> ErrUnsupported]
    ELSE [res |-> PartitionLoop(part.Type,
                                Parse(part.Begin, 0),
                                Parse(part.End, 0)),
          err |-> NoErr]

CreatePartitions(part) ==
    IF ~ParseOk(part.Begin) THEN [res |-> <<>>, err |-> ErrParse]
    ELSE IF ~ParseOk(part.End) THEN [res |-> <<>>, err |-> ErrParse]
    ELSE IF part.Type \notin SupportedTypes
    THEN [res |-> <<>>, err |-> ErrUnsupported]
    ELSE [res |-> PartitionLoop(part.Type,
                                Parse(part.Begin, 0),
                                Parse(part.End, SecondsOfDayEnd)),
          err |-> NoErr]

\* time.Format for the layout elements 2006, 01, 1, 02 and 2; every other
\* character of the layouts used here is copied
RECURSIVE Format(_, _)
Format(t, layout) ==
    IF Len(layout) = 0 THEN <<>>
    ELSE IF HasPrefix(layout, <<"2", "0", "0", "6">>)
    THEN AppendInt(t.y, 4) \o Format(t, Drop(layout, 4))
    ELSE IF HasPrefix(layout, <<"0", "1">>)
    THEN AppendInt(t.m, 2) \o Format(t, Drop(layout, 2))
    ELSE IF HasPrefix(layout, <<"0", "2">>)
    THEN AppendInt(t.d, 2) \o Format(t, Drop(layout, 2))
    ELSE IF HasPrefix(layout, <<"2">>)
    THEN Sprint(t.d) \o Format(t, Drop(layout, 1))
    ELSE IF HasPrefix(layout, <<"1">>)
    THEN Sprint(t.m) \o Format(t, Drop(layout, 1))
    ELSE <<layout[1]>> \o Format(t, Drop(layout, 1))

LayoutISO == <<"2", "0", "0", "6", "-", "0", "1", "-", "0", "2">>

\* lines 184-185 of Process: the bounds of partition p (0-based), as times
PartBegin(parts, p) == parts[p + 1]
PartEnd(parts, p) == AddDate(parts[p + 2], 0, 0, -1)

\* the bounds of every partition the loop of Process visits
ProcessBounds(parts) ==
    [i \in 1..(Len(parts) - 1) |->
        [beg |-> PartBegin(parts, i - 1), end |-> PartEnd(parts, i - 1)]]

(***************************************************************************)
(* Placeholder substitution, site by site.                                 *)
(***************************************************************************)
Ext == <<".", "x", "l", "s", "x">>

\* ResolveName without the {part.end} pass
ResolveName_MissingEnd(name, num, beg, end) ==
    ReplaceAll(ReplaceAll(name, TokNum, Sprint(num)), TokBeg, beg)

\* CloneTemplate, lines 151-161: the three nested ReplaceAll
ResolveName(name, num, beg, end) ==
    ReplaceAll(ReplaceAll(ReplaceAll(name, TokNum, Sprint(num)),
                          TokBeg, beg),
               TokEnd, end)

\* CloneTemplate, lines 151-162: the name of the output file
OutputName(name, num, beg, end) == ResolveName(name, num, beg, end) \o Ext

\* Process, line 192
ResolveQuery(q, beg, end) ==
    ReplaceAll(ReplaceAll(q, TokBeg, beg), TokEnd, end)

\* ResolveValue with {part.end} replaced by the begin of the partition
ResolveValue_BeginTwice(v, beg, end) ==
    ReplaceAll(ReplaceAll(v, TokBeg, beg), TokEnd, beg)

\* Process, lines 225-231
ResolveValue(v, beg, end) ==
    ReplaceAll(ReplaceAll(v, TokBeg, beg), TokEnd, end)

\* ResolveFormula with {rows.last} resolved to the total row itself
ResolveFormula_OffByOne(f, row) ==
    ReplaceAll(f, TokRowsLast, Sprint(row))

\* Process, lines 245-248
ResolveFormula(f, row) ==
    ReplaceAll(f, TokRowsLast, Sprint(row - 1))

(***************************************************************************)
(* The workbook: a sheet is a function from <<row, col>> to a cell; a      *)
(* coordinate outside its domain is a blank cell of the default style.     *)
(* Columns are numbers (ExcelCols[c] names column c + 1).                  *)
(***************************************************************************)
Blank == [v |-> <<>>, style |-> 0]

Cell(sh, row, col) ==
    IF <<row, col>> \in DOMAIN sh THEN sh[<<row, col>>] ELSE Blank

SetCellValue(sh, row, col, val) ==
    IF row < 1 THEN sh
    ELSE [x \in DOMAIN sh \cup {<<row, col>>} |->
             IF x = <<row, col>>
             THEN [v |-> val, style |-> Cell(sh, row, col).style]
             ELSE sh[x]]

\* excelize GetCellStyle: the style id, 0 together with an error for an
\* invalid cell reference (row 0); Process drops the error
GetCellStyle(sh, row, col) ==
    IF row < 1 THEN 0 ELSE Cell(sh, row, col).style

SetCellStyle(sh, row, col, st) ==
    IF row < 1 THEN sh
    ELSE [x \in DOMAIN sh \cup {<<row, col>>} |->
             IF x = <<row, col>>
             THEN [v |-> Cell(sh, row, col).v, style |-> st]
             ELSE sh[x]]

\* excelize SetSheetRow: vals from (row, col) rightwards
RECURSIVE SetSheetRow(_, _, _, _)
SetSheetRow(sh, row, col, vals) ==
    IF Len(vals) = 0 THEN sh
    ELSE SetSheetRow(SetCellValue(sh, row, col, Head(vals)),
                     row, col + 1, Tail(vals))

\* excelize InsertRow: a blank row before `row`; that row and every row
\* below it move down by one
InsertRow(sh, row) ==
    [x \in {IF c[1] >= row THEN <<c[1] + 1, c[2]>> ELSE c : c \in DOMAIN sh} |->
        IF x[1] > row THEN sh[<<x[1] - 1, x[2]>>] ELSE sh[x]]

\* rows and columns of the template file that hold content
TemplateRows == 14
TemplateCols == 3

\* the template workbook: every cell has its own value and style
Template ==
    [x \in (1..TemplateRows) \X (1..TemplateCols) |->
        [v |-> <<"tpl", x[1], x[2]>>, style |-> 10 * x[1] + x[2]]]

\* columns of a query result row
RowWidth == 2

\* rows.SliceScan of the k-th result row
ResultRow(k) == [j \in 1..RowWidth |-> <<"data", k, j>>]

\* Process, lines 222-233: every variable, in order
RECURSIVE WriteVariables(_, _, _, _)
WriteVariables(sh, vars, beg, end) ==
    IF Len(vars) = 0 THEN sh
    ELSE WriteVariables(
             SetCellValue(sh, Head(vars).Row, Head(vars).Col,
                          <<"str", ResolveValue(Head(vars).Value, beg, end)>>),
             Tail(vars), beg, end)

\* WriteTotalization with the style read from the total cell itself
WriteTotalization_OwnStyle(sh, tot, row) ==
    LET style == GetCellStyle(sh, row, tot.Col)
        withFormula ==
            SetCellValue(sh, row, tot.Col,
                         <<"formula", ResolveFormula(tot.Formula, row)>>)
    IN  SetCellStyle(withFormula, row, tot.Col, style)

\* Process, lines 243-251: one totalization written in row r
WriteTotalization(sh, tot, row) ==
    LET style == GetCellStyle(sh, row - 1, tot.Col)
        withFormula ==
            SetCellValue(sh, row, tot.Col,
                         <<"formula", ResolveFormula(tot.Formula, row)>>)
    IN  SetCellStyle(withFormula, row, tot.Col, style)

(***************************************************************************)
(* State.                                                                  *)
(***************************************************************************)
VARIABLES
    pc,          \* position of the run
    cfg,         \* the Config main loaded
    s,           \* main: index of the current source (1-based)
    total,       \* main: the running partition counter
    partitions,  \* the boundaries Process was called with
    p,           \* Process: the loop index
    begin,       \* Process: formatted begin of the partition
    end,         \* Process: formatted end of the partition
    query,       \* Process: the query text last resolved
    n,           \* rows the query of this partition delivers
    k,           \* rows fetched so far
    r,           \* Process: the write row
    t,           \* totalizations written so far
    tpl,         \* the open workbook's sheet
    dst,         \* the open workbook's file name
    disk,        \* output files: name -> [num, saved]
    clones,      \* the calls of CloneTemplate so far: [src, num, dst]
    err,         \* the error handed to log.Fatalf
    faults,      \* the I/O failures that have happened
    part,        \* a Partition handed to CreatePartitions on its own
    created,     \* what CreatePartitions returned for part
    consumed,    \* the bounds Process derives from created.res
    rin,         \* a template string and a placeholder context
    site,        \* the substitution site applied to rin
    once,        \* rin.tmpl resolved
    twice        \* once resolved again

runVars == <<cfg, s, total, partitions, p, begin, end, query, n, k, r, t,
             tpl, dst, disk, clones, err, faults>>
partVars == <<part, created, consumed>>
substVars == <<rin, site, once, twice>>
vars == <<pc, runVars, partVars, substVars>>

NoFile == [x \in {} |-> 0]

RunIdle ==
    /\ cfg = [Sources |-> <<>>] /\ s = 0 /\ total = 0 /\ partitions = <<>>
    /\ p = 0 /\ begin = <<>> /\ end = <<>> /\ query = <<>>
    /\ n = 0 /\ k = 0 /\ r = 0 /\ t = 0 /\ tpl = NoFile /\ dst = <<>>
    /\ disk = NoFile /\ clones = <<>> /\ err = NoErr /\ faults = <<>>

PartIdle ==
    /\ part = [Type |-> "", Begin |-> <<>>, End |-> <<>>]
    /\ created = [res |-> <<>>, err |-> NoErr]
    /\ consumed = <<>>

SubstIdle ==
    /\ rin = [tmpl |-> <<>>] /\ site = "" /\ once = <<>> /\ twice = <<>>

(***************************************************************************)
(* Inputs.                                                                 *)
(***************************************************************************)
\* yyyy-mm-dd as a config file spells it
IsoDate(y, m, d) ==
    AppendInt(y, 4) \o <<"-">> \o AppendInt(m, 2) \o <<"-">> \o AppendInt(d, 2)

Years == 2024..(2024 + YearSpan)
Months == {1, 2, 3, 12}
Days == {1, 15, 29, 31}

Dates == {x \in Years \X Months \X Days : x[3] <= DaysIn(x[1], x[2])}

\* 2024-02-30 is no date: time.Parse rejects it
DateInputs == Dates \cup {<<2024, 2, 30>>}

Types == SupportedTypes \cup {"weekly", ""}

MonthsApart(b, e) == (e[1] * 12 + e[2]) - (b[1] * 12 + b[2])

\* monthly 2022-01-01..2022-03-31, the documented example
ExampleSpec ==
    [Type |-> "monthly", Begin |-> IsoDate(2022, 1, 1),
     End |-> IsoDate(2022, 3, 31)]

PartitionSpecs ==
    {ExampleSpec} \cup
    {[Type |-> ty, Begin |-> IsoDate(b[1], b[2], b[3]),
      End |-> IsoDate(e[1], e[2], e[3])] :
        <<ty, b, e>> \in
            {x \in Types \X DateInputs \X DateInputs :
                x[1] \in {"day", "daily"} =>
                    MonthsApart(x[2], x[3]) <= MaxDailyMonths}}

(***************************************************************************)
(* CreatePartitions and the bounds Process derives, on their own.          *)
(***************************************************************************)
InitPartitions ==
    /\ pc = "create"
    /\ part \in PartitionSpecs
    /\ created = [res |-> <<>>, err |-> NoErr]
    /\ consumed = <<>>
    /\ RunIdle
    /\ SubstIdle

\* main, lines 283-286
Generate ==
    /\ pc = "create"
    /\ created' = CreatePartitions(part)
    /\ pc' = IF created'.err = NoErr THEN "created" ELSE "rejected"
    /\ UNCHANGED <<part, consumed, runVars, substVars>>

\* Process, lines 183-185, for every p
Consume ==
    /\ pc = "created"
    /\ consumed' = ProcessBounds(created.res)
    /\ pc' = "consumed"
    /\ UNCHANGED <<part, created, runVars, substVars>>

NextPartitions == Generate \/ Consume

SpecPartitions == InitPartitions /\ [][NextPartitions]_vars

(***************************************************************************)
(* The run: main and Process.                                              *)
(***************************************************************************)
Str1(c) == <<c>>

PSpec(ty, b, e) ==
    [Type |-> ty, Begin |-> IsoDate(b[1], b[2], b[3]),
     End |-> IsoDate(e[1], e[2], e[3])]

\* the partition specs of the enumerated configurations: two months, one
\* day, an unaligned end, an unsupported type, end < begin, a bad date
RunSpecs ==
    {PSpec("monthly", <<2024, 1, 1>>, <<2024, 2, 29>>),
     PSpec("day", <<2024, 2, 29>>, <<2024, 2, 29>>),
     PSpec("month", <<2024, 1, 31>>, <<2024, 3, 15>>),
     PSpec("weekly", <<2024, 1, 1>>, <<2024, 2, 29>>),
     PSpec("monthly", <<2024, 3, 1>>, <<2024, 1, 1>>),
     PSpec("hourly", <<2024, 2, 30>>, <<2024, 3, 1>>)}

SourceLists ==
    UNION {[1..len -> RunSpecs] : len \in 1..MaxSources}

NameNum == Str1("r") \o TokNum
NamePlain == Str1("r")
NameBeg == Str1("r") \o TokBeg \o Str1("-") \o TokEnd
LayoutYear == <<"2", "0", "0", "6">>

QueryText == Str1("q") \o TokBeg \o Str1(":") \o TokEnd

FormulaText(c) == Str1("=") \o Str1(c) \o TokRowsLast

VariableLists ==
    {<<>>,
     <<[Row |-> 1, Col |-> 2, Value |-> TokBeg \o Str1("~") \o TokEnd],
       [Row |-> 10, Col |-> 1, Value |-> Str1("v")]>>}

TotalizationLists ==
    {<<>>,
     <<[Col |-> 2, Formula |-> FormulaText("B")]>>,
     <<[Col |-> 3, Formula |-> FormulaText("C")],
       [Col |-> 1, Formula |-> FormulaText("A")]>>}

StartRows == {1, 10}
StartCols == {1, 2}

\* configurations that vary the sheet layout
SheetConfigs ==
    {[Sources |-> <<PSpec("monthly", <<2024, 1, 1>>, <<2024, 2, 29>>)>>,
      Query |-> QueryText, TimeFormat |-> LayoutISO, Name |-> NameNum,
      Variables |-> vs, Totalizations |-> ts, Row |-> row, Col |-> col] :
        <<vs, ts, row, col>> \in
            VariableLists \X TotalizationLists \X StartRows \X StartCols}

\* configurations that vary the sources and the naming of the output
SourceConfigs ==
    {[Sources |-> src, Query |-> QueryText, TimeFormat |-> tf, Name |-> nm,
      Variables |-> <<>>,
      Totalizations |-> <<[Col |-> 2, Formula |-> FormulaText("B")]>>,
      Row |-> 10, Col |-> 2] :
        <<src, tf, nm>> \in
            SourceLists \X {LayoutISO, LayoutYear}
                        \X {NameNum, NamePlain, NameBeg}}

Configs == SheetConfigs \cup SourceConfigs

Init ==
    /\ pc = "main"
    /\ cfg \in Configs
    /\ s = 1 /\ total = 1 /\ partitions = <<>>
    /\ p = 0 /\ begin = <<>> /\ end = <<>> /\ query = <<>>
    /\ n = 0 /\ k = 0 /\ r = 0 /\ t = 0 /\ tpl = NoFile /\ dst = <<>>
    /\ disk = NoFile /\ clones = <<>> /\ err = NoErr /\ faults = <<>>
    /\ PartIdle
    /\ SubstIdle

CanFault == Len(faults) < MaxFaults

\* log.Fatalf with the error of a failed call
Fatal(what) ==
    /\ pc' = "fatal"
    /\ err' = what
    /\ faults' = Append(faults, what)

\* main, lines 277-281: OpenDb fails
OpenDbFails ==
    /\ pc = "main"
    /\ s <= Len(cfg.Sources)
    /\ CanFault
    /\ Fatal("OpenDb")
    /\ UNCHANGED <<cfg, s, total, partitions, p, begin, end, query, n, k, r,
                   t, tpl, dst, disk, clones, partVars, substVars>>

\* main, lines 283-286: CreatePartitions returns an error
CreateFails ==
    /\ pc = "main"
    /\ s <= Len(cfg.Sources)
    /\ CreatePartitions(cfg.Sources[s]).err # NoErr
    /\ pc' = "fatal"
    /\ err' = CreatePartitions(cfg.Sources[s]).err
    /\ UNCHANGED <<cfg, s, total, partitions, p, begin, end, query, n, k, r,
                   t, tpl, dst, disk, clones, faults, partVars, substVars>>

\* main, lines 283-288: Process is entered with the boundaries
EnterProcess ==
    /\ pc = "main"
    /\ s <= Len(cfg.Sources)
    /\ CreatePartitions(cfg.Sources[s]).err = NoErr
    /\ partitions' = CreatePartitions(cfg.Sources[s]).res
    /\ p' = 0
    /\ pc' = "loop"
    /\ UNCHANGED <<cfg, s, total, begin, end, query, n, k, r, t, tpl, dst,
                   disk, clones, err, faults, partVars, substVars>>

\* main, line 277: no source is left
Exit ==
    /\ pc = "main"
    /\ s > Len(cfg.Sources)
    /\ pc' = "exit"
    /\ UNCHANGED <<runVars, partVars, substVars>>

\* the disk after ioutil.WriteFile(name, template)
WriteFile(d, name, num) ==
    [x \in DOMAIN d \cup {name} |->
        IF x = name THEN [num |-> num, saved |-> FALSE] ELSE d[x]]

\* the disk after tpl.Save() of the workbook opened from name
SaveFile(d, name) ==
    [x \in DOMAIN d |-> IF x = name THEN [d[x] EXCEPT !.saved = TRUE] ELSE d[x]]

\* the partition counter CloneTemplate is called with (line 187)
PartitionNum(tot, idx) == tot + idx

\* Process, lines 183-190: the bounds are formatted and the template is
\* cloned; ReadFile, WriteFile or OpenFile may fail
Clone ==
    /\ pc = "loop"
    /\ p < Len(partitions) - 1
    /\ LET b == Format(PartBegin(partitions, p), cfg.TimeFormat)
           e == Format(PartEnd(partitions, p), cfg.TimeFormat)
           num == PartitionNum(total, p)
           name == OutputName(cfg.Name, num, b, e)
       IN  /\ begin' = b
           /\ end' = e
           /\ clones' = Append(clones, [src |-> s, num |-> num, dst |-> name])
           /\ \/ /\ disk' = WriteFile(disk, name, num)
                 /\ dst' = name
                 /\ tpl' = Template
                 /\ pc' = "query"
                 /\ UNCHANGED <<err, faults>>
              \/ /\ CanFault
                 /\ Fatal("ReadFile")
                 /\ UNCHANGED <<disk, dst, tpl>>
              \/ /\ CanFault
                 /\ Fatal("WriteFile")
                 /\ UNCHANGED <<disk, dst, tpl>>
              \/ /\ CanFault
                 /\ Fatal("OpenFile")
                 /\ disk' = WriteFile(disk, name, num)
                 /\ UNCHANGED <<dst, tpl>>
    /\ UNCHANGED <<cfg, s, total, partitions, p, query, n, k, r, t,
                   partVars, substVars>>

\* Process, lines 192-200: the query is resolved and run; it delivers some
\* number of rows, or fails
Query ==
    /\ pc = "query"
    /\ query' = ResolveQuery(cfg.Query, begin, end)
    /\ \/ /\ \E rows \in 0..MaxRows : n' = rows
          /\ k' = 0
          /\ r' = cfg.Row
          /\ pc' = "rows"
          /\ UNCHANGED <<err, faults>>
       \/ /\ CanFault
          /\ Fatal("Queryx")
          /\ UNCHANGED <<n, k, r>>
    /\ UNCHANGED <<cfg, s, total, partitions, p, begin, end, t, tpl, dst,
                   disk, clones, partVars, substVars>>

\* Process, lines 201-220: one result row is scanned and written at row r;
\* SliceScan or SetSheetRow may fail
WriteRow ==
    /\ pc = "rows"
    /\ k < n
    /\ \/ /\ tpl' = SetSheetRow(tpl, r, cfg.Col, ResultRow(k + 1))
          /\ r' = r + 1
          /\ k' = k + 1
          /\ UNCHANGED <<pc, err, faults>>
       \/ /\ CanFault
          /\ \E what \in {"SliceScan", "SetSheetRow"} : Fatal(what)
          /\ UNCHANGED <<tpl, r, k>>
    /\ UNCHANGED <<cfg, s, total, partitions, p, begin, end, query, n, t,
                   dst, disk, clones, partVars, substVars>>

\* Process, lines 201 and 222-233: rows.Next() is false, the variables are
\* written
WriteVars ==
    /\ pc = "rows"
    /\ k = n
    /\ tpl' = WriteVariables(tpl, cfg.Variables, begin, end)
    /\ pc' = "insert"
    /\ UNCHANGED <<cfg, s, total, partitions, p, begin, end, query, n, k, r,
                   t, dst, disk, clones, err, faults, partVars, substVars>>

\* Process, lines 235-240: with a totalization configured a row is
\* inserted at r; InsertRow may fail
Insert ==
    /\ pc = "insert"
    /\ t' = 0
    /\ IF Len(cfg.Totalizations) > 0
       THEN \/ /\ tpl' = InsertRow(tpl, r)
               /\ pc' = "totals"
               /\ UNCHANGED <<err, faults>>
            \/ /\ CanFault
               /\ Fatal("InsertRow")
               /\ UNCHANGED tpl
       ELSE /\ pc' = "save"
            /\ UNCHANGED <<tpl, err, faults>>
    /\ UNCHANGED <<cfg, s, total, partitions, p, begin, end, query, n, k, r,
                   dst, disk, clones, partVars, substVars>>

\* Process, lines 242-252: the next totalization is written in row r
Totalize ==
    /\ pc = "totals"
    /\ t < Len(cfg.Totalizations)
    /\ tpl' = WriteTotalization(tpl, cfg.Totalizations[t + 1], r)
    /\ t' = t + 1
    /\ pc' = IF t + 1 = Len(cfg.Totalizations) THEN "save" ELSE "totals"
    /\ UNCHANGED <<cfg, s, total, partitions, p, begin, end, query, n, k, r,
                   dst, disk, clones, err, faults, partVars, substVars>>

\* Process, lines 254-258: Save, whose error is dropped, then Close
Save ==
    /\ pc = "save"
    /\ \/ /\ disk' = SaveFile(disk, dst)
          /\ UNCHANGED faults
       \/ /\ CanFault
          /\ faults' = Append(faults, "Save")
          /\ UNCHANGED disk
    /\ p' = p + 1
    /\ pc' = "loop"
    /\ UNCHANGED <<cfg, s, total, partitions, begin, end, query, n, k, r, t,
                   tpl, dst, clones, err, partVars, substVars>>

\* NextTotal with the counter starting over for every source
NextTotal_Reset(tot, parts) == 1

\* the counter after a source (main, line 295)
NextTotal(tot, parts) == tot + Len(parts) - 1

\* Process, lines 183 and 260, and main, lines 288-296: the loop is over,
\* Process returns nil, the counter advances, the next source is taken
ProcessReturns ==
    /\ pc = "loop"
    /\ ~(p < Len(partitions) - 1)
    /\ total' = NextTotal(total, partitions)
    /\ s' = s + 1
    /\ pc' = "main"
    /\ UNCHANGED <<cfg, partitions, p, begin, end, query, n, k, r, t, tpl,
                   dst, disk, clones, err, faults, partVars, substVars>>

Next ==
    \/ OpenDbFails
    \/ CreateFails
    \/ EnterProcess
    \/ Exit
    \/ Clone
    \/ Query
    \/ WriteRow
    \/ WriteVars
    \/ Insert
    \/ Totalize
    \/ Save
    \/ ProcessReturns

Spec == Init /\ [][Next]_vars

(***************************************************************************)
(* The substitutions of CloneTemplate and Process, on their own.           *)
(***************************************************************************)
TokUnknown == <<"{", "x", "}">>

Pieces ==
    {Str1("a"), TokNum, TokBeg, TokEnd, TokRowsLast, TokUnknown,
     <<"{", "p", "a", "r", "t">>, <<".", "b", "e", "g", "}">>}

RECURSIVE Concat(_)
Concat(ps) == IF Len(ps) = 0 THEN <<>> ELSE Head(ps) \o Concat(Tail(ps))

Templates ==
    {Concat(ps) : ps \in UNION {[1..len -> Pieces] : len \in 1..MaxPieces}}

\* a time format without any layout element: Format copies it
LayoutLiteral == TokNum
LayoutEmpty == <<>>

\* the boundaries of monthly 2024-01-01..2024-01-31
OneMonth == <<Day(2024, 1, 1), Day(2024, 2, 1)>>

\* the counter and the total row of the enumerated contexts
Counters == {<<1, 1>>, <<12, 13>>}

Contexts ==
    {[num |-> c[1], row |-> c[2],
      beg |-> Format(PartBegin(OneMonth, 0), tf),
      end |-> Format(PartEnd(OneMonth, 0), tf)] :
        <<c, tf>> \in Counters \X {LayoutISO, LayoutLiteral, LayoutEmpty}}

InitSubst ==
    /\ pc = "resolve"
    /\ \E tm \in Templates, cx \in Contexts :
           rin = [tmpl |-> tm, num |-> cx.num, row |-> cx.row,
                  beg |-> cx.beg, end |-> cx.end]
    /\ site = "" /\ once = <<>> /\ twice = <<>>
    /\ RunIdle
    /\ PartIdle

\* CloneTemplate, lines 151-162
ApplyName ==
    /\ pc = "resolve"
    /\ site' = "name"
    /\ once' = OutputName(rin.tmpl, rin.num, rin.beg, rin.end)
    /\ pc' = "once"
    /\ UNCHANGED <<rin, twice, runVars, partVars>>

\* Process, line 192
ApplyQuery ==
    /\ pc = "resolve"
    /\ site' = "query"
    /\ once' = ResolveQuery(rin.tmpl, rin.beg, rin.end)
    /\ pc' = "once"
    /\ UNCHANGED <<rin, twice, runVars, partVars>>

\* Process, lines 225-231
ApplyValue ==
    /\ pc = "resolve"
    /\ site' = "value"
    /\ once' = ResolveValue(rin.tmpl, rin.beg, rin.end)
    /\ pc' = "once"
    /\ UNCHANGED <<rin, twice, runVars, partVars>>

\* Process, lines 245-248
ApplyFormula ==
    /\ pc = "resolve"
    /\ site' = "formula"
    /\ once' = ResolveFormula(rin.tmpl, rin.row)
    /\ pc' = "once"
    /\ UNCHANGED <<rin, twice, runVars, partVars>>

\* the substitution of the same site applied to its own result
Reapply ==
    /\ pc = "once"
    /\ twice' =
           CASE site = "name" -> ResolveName(once, rin.num, rin.beg, rin.end)
             [] site = "query" -> ResolveQuery(once, rin.beg, rin.end)
             [] site = "value" -> ResolveValue(once, rin.beg, rin.end)
             [] OTHER -> ResolveFormula(once, rin.row)
    /\ pc' = "twice"
    /\ UNCHANGED <<rin, site, once, runVars, partVars>>

NextSubst ==
    \/ ApplyName
    \/ ApplyQuery
    \/ ApplyValue
    \/ ApplyFormula
    \/ Reapply

SpecSubst == InitSubst /\ [][NextSubst]_vars

(***************************************************************************)
(* Properties of CreatePartitions and of the partition bounds.             *)
(***************************************************************************)
SameDay(a, b) == a.y = b.y /\ a.m = b.m /\ a.d = b.d

\* both dates parse, the type is supported and begin <= end
ValidSpec(ps) ==
    /\ ps.Type \in SupportedTypes
    /\ ParseOk(ps.Begin)
    /\ ParseOk(ps.End)
    /\ ~Before(Parse(ps.End, 0), Parse(ps.Begin, 0))

\* both dates parse, the type is supported and end < begin
ReversedSpec(ps) ==
    /\ ps.Type \in SupportedTypes
    /\ ParseOk(ps.Begin)
    /\ ParseOk(ps.End)
    /\ Before(Parse(ps.End, 0), Parse(ps.Begin, 0))

StrictlyIncreasing(res) ==
    \A i \in 1..(Len(res) - 1) : Before(res[i], res[i + 1])

\* C1 as claimed: for a supported granularity and begin <= end the
\* boundaries start at begin, end at end and increase strictly; the monthly
\* example 2022-01-01..2022-03-31 ends with 2022-03-31.
C1_Claimed ==
    (pc = "created" /\ ValidSpec(part)) =>
        /\ Len(created.res) >= 1
        /\ SameDay(created.res[1], Parse(part.Begin, 0))
        /\ SameDay(created.res[Len(created.res)], Parse(part.End, 0))
        /\ StrictlyIncreasing(created.res)

\* C1 as the code has it: for a supported granularity and begin <= end the
\* boundaries start at begin (00:00:00), increase strictly, each is one
\* calendar step after the one before it, all but the last lie before the
\* end of day of end, and the last is the first step that does not: it is
\* after end, never end itself. The monthly example 2022-01-01..2022-03-31
\* yields [2022-01-01, 2022-02-01, 2022-03-01, 2022-04-01].
C1_Boundaries ==
    (pc = "created" /\ ValidSpec(part)) =>
        LET res == created.res
            last == res[Len(res)]
            endOfDay == Parse(part.End, SecondsOfDayEnd)
        IN  /\ Len(res) >= 2
            /\ res[1] = Parse(part.Begin, 0)
            /\ StrictlyIncreasing(res)
            /\ \A i \in 1..(Len(res) - 1) :
                   /\ Before(res[i], endOfDay)
                   /\ res[i + 1] = adder(part.Type, res[i])
            /\ Before(endOfDay, last)
            /\ ~SameDay(last, endOfDay)
            /\ part = ExampleSpec =>
                   res = <<Day(2022, 1, 1), Day(2022, 2, 1),
                           Day(2022, 3, 1), Day(2022, 4, 1)>>

\* the documented example has been generated
C1_Witness ==
    /\ pc = "created"
    /\ part = ExampleSpec
    /\ Len(created.res) = 4

\* C2 as claimed: for begin <= end the partitions Process consumes are
\* contiguous (each begins the day after the previous one ends) and cover
\* exactly [begin, end]: the first begins on begin, the last ends on end.
C2_Claimed ==
    (pc = "consumed" /\ ValidSpec(part)) =>
        /\ Len(consumed) >= 1
        /\ SameDay(consumed[1].beg, Parse(part.Begin, 0))
        /\ SameDay(consumed[Len(consumed)].end, Parse(part.End, 0))
        /\ \A i \in 1..(Len(consumed) - 1) :
               SameDay(consumed[i + 1].beg,
                       AddDate(consumed[i].end, 0, 0, 1))

\* C10 as claimed: whenever CreatePartitions returns without error, also
\* for end < begin, there are at least 2 boundaries and Process consumes
\* at least one partition.
C10_Claimed ==
    /\ (pc = "created" /\ created.err = NoErr) => Len(created.res) >= 2
    /\ pc = "consumed" => Len(consumed) >= 1

\* C10 as the code has it: without error and with begin <= end there are
\* at least 2 boundaries and Process consumes at least one partition; for
\* end < begin CreatePartitions returns, without error, the single
\* boundary begin, and Process consumes no partition.
C10_AtLeastOnePartition ==
    /\ (pc \in {"created", "consumed"}) => created.err = NoErr
    /\ (pc = "created" /\ ValidSpec(part)) => Len(created.res) >= 2
    /\ (pc = "consumed" /\ ValidSpec(part)) => Len(consumed) >= 1
    /\ (pc \in {"created", "consumed"} /\ ReversedSpec(part)) =>
           created.res = <<Parse(part.Begin, 0)>>
    /\ (pc = "consumed" /\ ReversedSpec(part)) => consumed = <<>>
    /\ (pc = "rejected") => ~ValidSpec(part) /\ ~ReversedSpec(part)

\* a spec with end < begin went through Process
C10_Witness ==
    /\ pc = "consumed"
    /\ ReversedSpec(part)
    /\ created.err = NoErr

(***************************************************************************)
(* Properties of the run.                                                  *)
(***************************************************************************)
IsData(val) == Len(val) = 3 /\ val[1] = "data"

\* while the rows are written: the i-th row fetched is in row S + i - 1
\* from the start column on, no data is anywhere else, and r = S + k
DataRowsPlaced ==
    pc = "rows" =>
        /\ r = cfg.Row + k
        /\ \A i \in 1..k : \A j \in 1..RowWidth :
               Cell(tpl, cfg.Row + i - 1, cfg.Col + j - 1).v = <<"data", i, j>>
        /\ \A x \in DOMAIN tpl :
               IsData(tpl[x].v) => x[1] \in cfg.Row..(cfg.Row + k - 1)

\* the step of lines 235-240: with a totalization configured one blank
\* row appears at S + N and the rows from there on move down by one;
\* without, the sheet is left as it is
OneRowInserted ==
    (pc = "insert" /\ pc' # "fatal") =>
        IF Len(cfg.Totalizations) > 0
        THEN /\ r = cfg.Row + n
             /\ \A x \in DOMAIN tpl :
                    IF x[1] < cfg.Row + n
                    THEN Cell(tpl', x[1], x[2]) = tpl[x]
                    ELSE Cell(tpl', x[1] + 1, x[2]) = tpl[x]
             /\ \A x \in DOMAIN tpl' : x[1] # cfg.Row + n
             /\ Cardinality(DOMAIN tpl') = Cardinality(DOMAIN tpl)
        ELSE tpl' = tpl /\ pc' = "save"

\* the totalization written last holds its formula in row S + N, with
\* {rows.last} replaced by S + N - 1
FormulaInTotalRow ==
    (pc \in {"totals", "save"} /\ t >= 1) =>
        Cell(tpl, cfg.Row + n, cfg.Totalizations[t].Col).v =
            <<"formula",
              ReplaceAll(cfg.Totalizations[t].Formula, TokRowsLast,
                         Sprint(cfg.Row + n - 1))>>

\* C3: with N result rows and start row S the k-th row is written at row
\* S + k - 1; with a totalization configured exactly one blank row is
\* inserted at S + N, every totalization formula is written in row S + N
\* and its {rows.last} is S + N - 1; without, no row is inserted.
C3_RowsAndTotals ==
    [][DataRowsPlaced' /\ OneRowInserted /\ FormulaInTotalRow']_vars

\* 3 rows from start row 10, one totalization: data in rows 10-12, the
\* formula in row 13 with rows.last = 12
C3_Witness ==
    /\ pc = "save"
    /\ cfg.Row = 10 /\ cfg.Col = 2
    /\ n = 3 /\ k = 3 /\ t = 1
    /\ Len(cfg.Totalizations) = 1
    /\ Cell(tpl, 12, 2).v = <<"data", 3, 1>>
    /\ Cell(tpl, 13, 2).v = <<"formula", <<"=", "B", "1", "2">>>>
    /\ Cell(tpl, 14, 2).v = <<"tpl", 13, 2>>

\* C4: a source whose partition type is not supported makes
\* CreatePartitions fail (with "unsupported partition type" when both
\* dates parse, with the parse error otherwise); the run ends there, and
\* CloneTemplate is never called for that source.
C4_UnsupportedType ==
    \A i \in 1..Len(cfg.Sources) :
        cfg.Sources[i].Type \notin SupportedTypes =>
            /\ s <= i
            /\ \A j \in 1..Len(clones) : clones[j].src # i
            /\ s = i => pc \in {"main", "fatal"}
            /\ (s = i /\ pc = "fatal" /\ faults = <<>>) =>
                   err = IF ParseOk(cfg.Sources[i].Begin)
                            /\ ParseOk(cfg.Sources[i].End)
                         THEN ErrUnsupported
                         ELSE ErrParse

\* the second source has an unsupported type; the first one was processed
C4_Witness ==
    /\ pc = "fatal"
    /\ s = 2
    /\ err = ErrUnsupported
    /\ cfg.Sources[2].Type = "weekly"
    /\ Len(clones) >= 1
    /\ \A j \in 1..Len(clones) : clones[j].src = 1

\* C5 as claimed: every failure of a template clone, open or save, of the
\* query or of a data-row write is returned and ends the run at once.
C5_Claimed ==
    faults # <<>> => (pc = "fatal" /\ err = faults[1])

\* C6 as claimed: the num passed to CloneTemplate is 1, 2, 3, ... over
\* the whole run, and the output file names are pairwise distinct.
C6_Claimed ==
    /\ \A i \in 1..Len(clones) : clones[i].num = i
    /\ \A i, j \in 1..Len(clones) : i # j => clones[i].dst # clones[j].dst

\* C6 as the code has it: the num passed to CloneTemplate is 1, 2, 3, ...
\* over the whole run, across the sources; when the output name contains
\* {num} (and the formatted bounds have a fixed width) the file names are
\* pairwise distinct and every file on disk is the one of the call that
\* named it.
C6_Counter ==
    /\ \A i \in 1..Len(clones) : clones[i].num = i
    /\ Contains(cfg.Name, TokNum) =>
           /\ \A i, j \in 1..Len(clones) :
                  i # j => clones[i].dst # clones[j].dst
           /\ \A i \in 1..Len(clones) :
                  clones[i].dst \in DOMAIN disk =>
                      disk[clones[i].dst].num = i

\* the second source continues the count of the first
C6_Witness ==
    /\ Len(clones) = 3
    /\ clones[2].src = 1
    /\ clones[3].src = 2
    /\ clones[3].num = 3
    /\ Contains(cfg.Name, TokNum)
    /\ clones[3].dst \in DOMAIN disk

\* C8: a totalization write leaves in the total cell the style the cell
\* above it (row rows.last, same column) had before the write, and does
\* not change the style of that cell.
C8_StyleInherited ==
    [][(pc = "totals" /\ t' = t + 1 /\ r > 1) =>
          LET col == cfg.Totalizations[t + 1].Col
          IN  /\ Cell(tpl', cfg.Row + n, col).style =
                     Cell(tpl, cfg.Row + n - 1, col).style
              /\ Cell(tpl', cfg.Row + n - 1, col).style =
                     Cell(tpl, cfg.Row + n - 1, col).style]_vars

\* a total cell carries the style of the data cell above it
C8_Witness ==
    /\ pc \in {"totals", "save"}
    /\ t >= 1
    /\ n >= 1
    /\ Cell(tpl, r, cfg.Totalizations[t].Col).style # 0
    /\ Cell(tpl, r, cfg.Totalizations[t].Col).style =
           Cell(tpl, r - 1, cfg.Totalizations[t].Col).style

(***************************************************************************)
(* Properties of the substitutions.                                        *)
(***************************************************************************)
Chars(str) == {str[i] : i \in 1..Len(str)}

TokenChars == Chars(TokNum) \cup Chars(TokBeg) \cup Chars(TokEnd)
                  \cup Chars(TokRowsLast)

\* a value that is not empty and shares no character with a token, such as
\* a decimal number or a date formatted with the layout 2006-01-02
PlainValue(val) == val # <<>> /\ Chars(val) \cap TokenChars = {}

PlainContext ==
    /\ PlainValue(rin.beg)
    /\ PlainValue(rin.end)
    /\ PlainValue(Sprint(rin.num))

\* the value a token stands for in the context
TokenValue(tok) ==
    CASE tok = TokNum -> Sprint(rin.num)
      [] tok = TokBeg -> rin.beg
      [] tok = TokEnd -> rin.end
      [] OTHER -> Sprint(rin.row - 1)

\* the tokens replaced one after the other in the given order
RECURSIVE InOrder(_, _)
InOrder(str, toks) ==
    IF Len(toks) = 0 THEN str
    ELSE InOrder(ReplaceAll(str, Head(toks), TokenValue(Head(toks))),
                 Tail(toks))

Orders(toks) ==
    {o \in [1..Cardinality(toks) -> toks] :
        \A i, j \in DOMAIN o : i # j => o[i] # o[j]}

\* the tokens each site replaces
SiteTokens ==
    CASE site = "name" -> {TokNum, TokBeg, TokEnd}
      [] site = "query" -> {TokBeg, TokEnd}
      [] site = "value" -> {TokBeg, TokEnd}
      [] OTHER -> {TokRowsLast}

Suffix == IF site = "name" THEN Ext ELSE <<>>

Idempotent == pc = "twice" => twice = once

OrderFree ==
    pc = "once" =>
        \A o \in Orders(SiteTokens) : once = InOrder(rin.tmpl, o) \o Suffix

\* C7 as claimed: for every template and every context, resolving the
\* resolved string again changes nothing, and the result is the same in
\* whatever order the tokens are replaced.
C7_Claimed ==
    site \in {"name", "query", "value"} => (Idempotent /\ OrderFree)

\* C7 as the code has it: when no value of the context is empty or shares a
\* character with a token (decimal numbers, dates of the layout
\* 2006-01-02), resolving the resolved string again changes nothing, and
\* the result is the same in whatever order the tokens are replaced.
C7_Idempotent ==
    (site \in {"name", "query", "value"} /\ PlainContext) =>
        (Idempotent /\ OrderFree)

\* a name with two tokens was resolved twice, in a plain context
C7_Witness ==
    /\ pc = "twice"
    /\ site = "name"
    /\ PlainContext
    /\ Contains(rin.tmpl, TokNum)
    /\ Contains(rin.tmpl, TokEnd)
    /\ once # rin.tmpl \o Ext
    /\ twice = once

\* occurrences of sub in str, counted from the left without overlap
RECURSIVE Count(_, _)
Count(str, sub) ==
    IF Len(str) < Len(sub) THEN 0
    ELSE IF HasPrefix(str, sub) THEN 1 + Count(Drop(str, Len(sub)), sub)
    ELSE Count(Drop(str, 1), sub)

RECURSIVE Sum(_, _)
Sum(f, S) ==
    IF S = {} THEN 0
    ELSE LET x == CHOOSE y \in S : TRUE IN f[x] + Sum(f, S \ {x})

KnownTokens == {TokNum, TokBeg, TokEnd, TokRowsLast}

\* C9 as claimed: in a plain context the query, the file name and a
\* variable value keep no {num}, {part.beg} or {part.end}, a formula keeps
\* no {rows.last}, and an unknown token is left as it is.
C9_Claimed ==
    (pc = "once" /\ PlainContext) =>
        /\ site \in {"name", "query", "value"} =>
               \A tok \in {TokNum, TokBeg, TokEnd} : ~Contains(once, tok)
        /\ site = "formula" => ~Contains(once, TokRowsLast)
        /\ Count(once, TokUnknown) = Count(rin.tmpl, TokUnknown)

\* C9 as the code has it: in a context whose values are not empty and
\* share no character with a token, the file name has every {num},
\* {part.beg} and {part.end} replaced by its value, the query and a
\* variable value have every {part.beg} and {part.end} replaced but keep
\* {num}, a formula has every {rows.last} replaced but keeps the other
\* three; a token the site does not replace, known or unknown, is left as
\* it is.
C9_SiteTokens ==
    (pc = "once" /\ PlainContext) =>
        /\ \A tok \in SiteTokens : ~Contains(once, tok)
        /\ \A tok \in SiteTokens :
               Count(once, TokenValue(tok)) >= Count(rin.tmpl, tok)
        /\ \A tok \in (KnownTokens \cup {TokUnknown}) \ SiteTokens :
               Count(once, tok) = Count(rin.tmpl, tok)
        /\ Len(once) =
               Len(rin.tmpl) + Len(Suffix)
               + Sum([tok \in SiteTokens |->
                         Count(rin.tmpl, tok)
                             * (Len(TokenValue(tok)) - Len(tok))],
                     SiteTokens)

\* a query with {num} and {part.end}: the date is in, {num} is kept
C9_Witness ==
    /\ pc = "once"
    /\ site = "query"
    /\ PlainContext
    /\ rin.tmpl = TokNum \o TokEnd
    /\ once = TokNum \o IsoDate(2024, 1, 31)

=============================================================================
